---- MODULE Spec2Model ----
(***************************************************************************)
(* A model of the MITM HTTP/HTTPS proxy of package proxy:                  *)
(*   - the CA material loader (LoadCA, CertificateManager),                *)
(*   - the leaf certificate store (CertificateStore, CertificateGenerator),*)
(*   - the per-connection handlers (handleClient / RequestProcessor /      *)
(*     TLSConnectionManager, and ConnectionHandler.ProcessRequest).        *)
(*                                                                         *)
(* Strings are modelled as sequences of items.  An item is one whitespace  *)
(* character (" ", "\t", "\r", "\n"), one colon ":", or an atom: a maximal *)
(* run of other characters.  No two atoms are adjacent, so two strings are *)
(* equal exactly when their item sequences are equal.                      *)
(***************************************************************************)
EXTENDS Integers, Sequences, FiniteSets, TLC

(***************************************************************************)
(* Bounds of the model.                                                    *)
(***************************************************************************)
NCallers == 2      \* goroutines that call GetCertificate concurrently
MaxCalls == 2      \* GetCertificate calls made in one behaviour
MaxBundles == 2    \* tls.Certificate objects allocated in one behaviour

Callers == 1..NCallers

Nil == "nil"

(***************************************************************************)
(* Host names used as arguments of GetCertificate.                         *)
(***************************************************************************)
HostNames == { <<"a.test">>, <<"b.test">> }

(***************************************************************************)
(* Strings (package strings), on item sequences.                           *)
(***************************************************************************)
WS == {" ", "\t", "\r", "\n"}

\* The letters of the atoms the model uses: <<atom, lower case, upper case>>.
CaseTable ==
    { <<"CONNECT", "connect", "CONNECT">>, <<"connect", "connect", "CONNECT">>,
      <<"Connect", "connect", "CONNECT">>, <<"GET", "get", "GET">>,
      <<"POST", "post", "POST">>, <<"HEAD", "head", "HEAD">>,
      <<"HTTP/1.1", "http/1.1", "HTTP/1.1">>, <<"x", "x", "X">>,
      <<"a.test", "a.test", "A.TEST">>, <<"A.TEST", "a.test", "A.TEST">>,
      <<"http", "http", "HTTP">>,
      <<"https", "https", "HTTPS">>, <<"//a.test/p", "//a.test/p", "//A.TEST/P">>,
      <<"//a.test", "//a.test", "//A.TEST">>, <<"8080/p", "8080/p", "8080/P">>,
      <<"//a.test/%zz", "//a.test/%zz", "//A.TEST/%ZZ">>,
      <<"Host", "host", "HOST">>, <<"host", "host", "HOST">>,
      <<"HOST", "host", "HOST">>,
      <<"Proxy-Connection", "proxy-connection", "PROXY-CONNECTION">>,
      <<"proxy-connection", "proxy-connection", "PROXY-CONNECTION">>,
      <<"PROXY-CONNECTION", "proxy-connection", "PROXY-CONNECTION">>,
      <<"Accept", "accept", "ACCEPT">>, <<"keep-alive", "keep-alive", "KEEP-ALIVE">>,
      <<"b.test", "b.test", "B.TEST">> }

CaseOf(a, k) ==
    IF \E t \in CaseTable : t[1] = a
    THEN (CHOOSE t \in CaseTable : t[1] = a)[k]
    ELSE a

\* strings.ToLower, strings.ToUpper
ToLower(s) == [i \in DOMAIN s |-> CaseOf(s[i], 2)]
ToUpper(s) == [i \in DOMAIN s |-> CaseOf(s[i], 3)]

RECURSIVE TrimLeft(_)
TrimLeft(s) == IF s # <<>> /\ Head(s) \in WS THEN TrimLeft(Tail(s)) ELSE s

RECURSIVE TrimRight(_)
TrimRight(s) ==
    IF s # <<>> /\ s[Len(s)] \in WS THEN TrimRight(SubSeq(s, 1, Len(s) - 1)) ELSE s

\* strings.TrimSpace
TrimSpace(s) == TrimRight(TrimLeft(s))

\* strings.Contains for a one-item separator
Contains(s, sep) == \E i \in DOMAIN s : s[i] = sep

\* strings.Index for a one-item separator that occurs in s
Index(s, sep) == CHOOSE i \in DOMAIN s : s[i] = sep /\ \A j \in 1..(i - 1) : s[j] # sep

\* strings.SplitN(s, sep, n) for n > 0
RECURSIVE SplitN(_, _, _)
SplitN(s, sep, n) ==
    IF n = 1 \/ ~Contains(s, sep) THEN <<s>>
    ELSE LET i == Index(s, sep)
         IN  <<SubSeq(s, 1, i - 1)>> \o SplitN(SubSeq(s, i + 1, Len(s)), sep, n - 1)

\* The length of the longest prefix of s without white space.
RECURSIVE WordLen(_)
WordLen(s) == IF s = <<>> \/ Head(s) \in WS THEN 0 ELSE 1 + WordLen(Tail(s))

\* strings.Fields
RECURSIVE Fields(_)
Fields(s) ==
    LET t == TrimLeft(s)
    IN  IF t = <<>> THEN <<>>
        ELSE <<SubSeq(t, 1, WordLen(t))>> \o Fields(SubSeq(t, WordLen(t) + 1, Len(t)))

(***************************************************************************)
(* What clients send.                                                      *)
(***************************************************************************)
MaxTokens == 4     \* tokens on a request line
MaxHeaders == 2    \* header lines a client sends
MaxBytes == 1      \* bytes each side sends through a relay

Methods == { <<"CONNECT">>, <<"connect">>, <<"Connect">>, <<"GET">>, <<"POST">> }

ConnectTargets == { <<"a.test", ":", "443">>, <<"a.test">> }
UrlTargets ==
    { <<"http", ":", "//a.test/p">>, <<"http", ":", "//a.test">>,
      <<"https", ":", "//a.test/p">>, <<"http", ":", "//a.test", ":", "8080/p">>,
      <<"http", ":", "//a.test/%zz">> }
Targets == ConnectTargets \cup UrlTargets

\* The i-th token of a request line with method m and target t.
Token(m, t, i) ==
    IF i = 1 THEN m ELSE IF i = 2 THEN t ELSE IF i = 3 THEN <<"HTTP/1.1">> ELSE <<"x">>

RECURSIVE JoinTokens(_, _, _, _)
JoinTokens(m, t, k, sep) ==
    IF k = 0 THEN <<>>
    ELSE IF k = 1 THEN Token(m, t, 1)
    ELSE JoinTokens(m, t, k - 1, sep) \o sep \o Token(m, t, k)

Separators == { <<" ">>, <<"\t">>, <<" ", " ">> }
Terminators == { <<"\r", "\n">>, <<"\n">> }

\* The first lines a client sends, each ending in a line feed.
RequestLines ==
    { JoinTokens(m, t, k, sep) \o term :
        m \in Methods, t \in Targets, k \in 0..MaxTokens,
        sep \in Separators, term \in Terminators }

\* The header lines a client sends, each ending in CR LF: "name: value" in
\* several spellings, a name followed by a space, an empty value and a line
\* without a colon.
HeaderLinesSent ==
    { <<"Host", ":", " ", "a.test", "\r", "\n">>,
      <<"HOST", ":", "\r", "\n">>,
      <<"Proxy-Connection", ":", " ", "keep-alive", "\r", "\n">>,
      <<"PROXY-CONNECTION", " ", ":", "keep-alive", "\r", "\n">>,
      <<"Accept", ":", " ", "a.test", "\r", "\n">>,
      <<"Accept", "\r", "\n">> }
BlankLine == <<"\r", "\n">>

(***************************************************************************)
(* CA files.  A file is missing (os.ReadFile fails) or holds a sequence of *)
(* segments; a segment is junk (bytes that are no PEM block) or a PEM      *)
(* block with a label and DER bytes.  DER bytes decode as an X.509         *)
(* certificate or as a PKCS#1 key of some key pair, or do not decode.      *)
(***************************************************************************)
KeyPairs == {"k1", "k2"}
Junk == [seg |-> "junk"]
Pem(label, kind, pair) == [seg |-> "pem", label |-> label, kind |-> kind, pair |-> pair]
CertPem(k) == Pem("CERTIFICATE", "x509", k)
KeyPem(k) == Pem("RSA PRIVATE KEY", "pkcs1", k)
Missing == [exists |-> FALSE, data |-> <<>>]
File(segs) == [exists |-> TRUE, data |-> segs]

CaFiles ==
    { Missing, File(<<>>), File(<<Junk>>),
      File(<<CertPem("k1")>>), File(<<KeyPem("k1")>>), File(<<KeyPem("k2")>>),
      File(<<CertPem("k1"), Junk>>), File(<<Junk, KeyPem("k1")>>),
      File(<<Pem("CERTIFICATE", "bad", "k1")>>),
      File(<<Pem("PRIVATE KEY", "pkcs1", "k1")>>) }

\* The files found at ca.crt and ca.key when the program starts (the key of
\* another key pair is a case of SpecStore).
StartupFiles == CaFiles \ {File(<<KeyPem("k2")>>)}

VARIABLES
    certManager,   \* the CertificateManager singleton: rootCertificate, privateKey
    loadResult,    \* what LoadCA returned: "none" (not called), "ok", "error"
    generator,     \* defaultStore.generator: rootCert, rootKey
    cache,         \* defaultStore.cache: a map from host name to bundle
    mutex,         \* defaultStore.mutex: the readers and the writer holding it
    gpc,           \* per caller: position inside GetOrCreateCertificate
    ghost,         \* per caller: the hostname argument
    gfound,        \* per caller: the (cert, exists) pair read at line 57
    gres,          \* per caller: the (cert, err) pair the call returns
    gtried,        \* per caller: the call reached generateCertificate
    gsince,        \* per caller: the call began after LoadCA had returned ok
    calls,         \* number of GetCertificate calls begun
    nextBundle,    \* number of tls.Certificate objects allocated
    mintLog,       \* history: the generateCertificate calls, in order
    returned,      \* history: the (host, cert, err) triples calls returned
    entry,         \* the program run: "mitm" (main calling run) or "http" (main calling Initialize)
    mainpc,        \* position of main
    lastAccept,    \* what the last listener.Accept returned
    cpc,           \* position of the handler of the accepted connection
    reqLine,       \* what the first ReadString returned, until the request is classified
    method,        \* requestMethod / requestData.method
    target,        \* requestTarget / requestData.targetURL
    version,       \* protocolVer / requestData.httpVersion
    route,         \* history: "tls" (TLS bridge entered), "plain" (plain forward entered)
    headers,       \* the headers map of collectHeaders / the requestData.headers list
    hdrLines,      \* history: the header lines read from the client
    body,          \* requestData.body
    details,       \* ConnectionDetails / TLSConnectionManager: host, port, path
    clientSock,    \* the client connection: "none", "open", "closed"
    originSock,    \* the origin connection: "none", "open", "closed"
    sentRequest,   \* the requests written to the origin on the plain path
    toOrigin,      \* the bytes relayed to the origin in the TLS bridge
    toClient,      \* what has been written to the client
    tlsState,      \* the client TLS handshake: "none", "ok", "failed"
    tlsInput,      \* what the TLS server handshake read from the client connection
    fromClient,    \* bytes the client has sent inside TLS, not yet read
    fromOrigin,    \* bytes the origin has sent, not yet read
    clientSent,    \* number of bytes the client has sent inside TLS
    originSent,    \* number of bytes the origin has sent
    clientEOF,     \* the client has closed its side
    originEOF,     \* the origin has closed its side
    c2o,           \* the goroutine io.Copy(serverConn, clientTLS): "none", "read", "write", "done"
    c2oBuf,        \* the bytes that goroutine has read and not yet written
    o2cBuf         \* the bytes the relaying handler has read and not yet written

storeVars == <<certManager, loadResult, generator, cache, mutex, gpc, ghost, gfound,
               gres, gtried, gsince, calls, nextBundle, mintLog, returned>>
mainVars == <<entry, mainpc, lastAccept>>
reqVars == <<reqLine, method, target, version, route, headers, hdrLines, body, details>>
sockVars == <<clientSock, originSock, sentRequest, toOrigin, toClient, tlsState, tlsInput>>
relayVars == <<fromClient, fromOrigin, clientSent, originSent, clientEOF, originEOF,
               c2o, c2oBuf, o2cBuf>>
connVars == <<mainVars, cpc, reqVars, sockVars, relayVars>>
vars == <<storeVars, connVars>>

NoLine == [err |-> Nil, line |-> <<>>]
NoDetails == [host |-> <<>>, port |-> <<>>, path |-> <<>>]

(***************************************************************************)
(* CA material loader.                                                     *)
(***************************************************************************)
\* readSecureFile: the content, or an error for a missing or empty file.
readSecureFile(f) ==
    IF ~f.exists THEN [err |-> "read", data |-> <<>>]
    ELSE IF Len(f.data) = 0 THEN [err |-> "empty", data |-> <<>>]
    ELSE [err |-> Nil, data |-> f.data]

\* pem.Decode: the first PEM block of the data, skipping what precedes it,
\* and the bytes that follow the block.
NoBlock == [seg |-> "none"]
RECURSIVE pemDecode(_)
pemDecode(data) ==
    IF data = <<>> THEN [block |-> NoBlock, rest |-> <<>>]
    ELSE IF Head(data).seg = "pem" THEN [block |-> Head(data), rest |-> Tail(data)]
    ELSE LET d == pemDecode(Tail(data))
         IN  IF d.block.seg = "none" THEN [block |-> NoBlock, rest |-> data] ELSE d

parseCertificateBlock(data) ==
    LET d == pemDecode(data)
    IN  IF d.block.seg = "none" \/ Len(d.rest) > 0 THEN [err |-> "pem", val |-> Nil]
        ELSE IF d.block.label # "CERTIFICATE" THEN [err |-> "label", val |-> Nil]
        ELSE IF d.block.kind # "x509" THEN [err |-> "parse", val |-> Nil]
        ELSE [err |-> Nil, val |-> d.block.pair]

parsePrivateKeyBlock(data) ==
    LET d == pemDecode(data)
    IN  IF d.block.seg = "none" \/ Len(d.rest) > 0 THEN [err |-> "pem", val |-> Nil]
        ELSE IF d.block.label # "RSA PRIVATE KEY" THEN [err |-> "label", val |-> Nil]
        ELSE IF d.block.kind # "pkcs1" THEN [err |-> "parse", val |-> Nil]
        ELSE [err |-> Nil, val |-> d.block.pair]

\* processCertificateData: the manager after the call, and the error.
processCertificateData(cm, certData, keyData) ==
    LET cert == parseCertificateBlock(certData)
        key == parsePrivateKeyBlock(keyData)
    IN  IF cert.err # Nil THEN [err |-> cert.err, cm |-> cm]
        ELSE IF key.err # Nil THEN [err |-> key.err, cm |-> cm]
        ELSE [err |-> Nil, cm |-> [rootCertificate |-> cert.val, privateKey |-> key.val]]

\* InitializeCertificateAuthority: load both files, then process them.
InitializeCertificateAuthority(cm, certFile, keyFile) ==
    LET c == readSecureFile(certFile)
        k == readSecureFile(keyFile)
    IN  IF c.err # Nil THEN [err |-> c.err, cm |-> cm]
        ELSE IF k.err # Nil THEN [err |-> k.err, cm |-> cm]
        ELSE processCertificateData(cm, c.data, k.data)

\* LoadCA(certPath, keyPath), called with the files found at the two paths.
LoadCA(certFile, keyFile) ==
    /\ loadResult = "none"
    /\ LET r == InitializeCertificateAuthority(certManager, certFile, keyFile)
       IN  /\ certManager' = r.cm
           /\ loadResult' = IF r.err = Nil THEN "ok" ELSE "error"
    /\ UNCHANGED <<generator, cache, mutex, gpc, ghost, gfound, gres, gtried, gsince,
                   calls, nextBundle, mintLog, returned>>

(***************************************************************************)
(* Leaf certificate store.                                                 *)
(***************************************************************************)
\* NewCertificateStore: an empty cache and a generator without CA material.
NewCertificateStore ==
    [cache |-> <<>>, generator |-> [rootCert |-> Nil, rootKey |-> Nil]]

\* A generator that holds the CA material of a key pair.
GeneratorWith(k) == [rootCert |-> k, rootKey |-> k]

NoCert == [id |-> 0, cn |-> <<>>]
NoResult == [cert |-> NoCert, err |-> Nil]

\* validateConfiguration
validateConfiguration(g) ==
    IF g.rootCert = Nil \/ g.rootKey = Nil THEN "ca_not_initialized" ELSE Nil

\* generateCertificate: the errors it can return (Nil: it returns a bundle).
generateCertificate(g) ==
    IF validateConfiguration(g) # Nil THEN {validateConfiguration(g)}
    ELSE {Nil, "keygen", "serial", "sign"}

\* The bundle a successful generateCertificate allocates: a new object whose
\* certificate has CN and DNS name hostname and is signed by the generator's root.
NewBundle(hostname, g) == [id |-> nextBundle + 1, cn |-> hostname]

\* A map assignment that drops the other entries of the map.
MapPut_evicting(m, k, v) == [x \in {k} |-> v]

\* s.cache[hostname] = cert
MapPut(m, k, v) == [x \in DOMAIN m \cup {k} |-> IF x = k THEN v ELSE m[x]]

\* GetCertificate(hostname) is called by goroutine p.
CallGetCertificate(p, hostname) ==
    /\ gpc[p] = "idle"
    /\ calls < MaxCalls
    /\ calls' = calls + 1
    /\ gpc' = [gpc EXCEPT ![p] = "RLock"]
    /\ ghost' = [ghost EXCEPT ![p] = hostname]
    /\ gres' = [gres EXCEPT ![p] = NoResult]
    /\ gfound' = [gfound EXCEPT ![p] = [cert |-> NoCert, exists |-> FALSE]]
    /\ gtried' = [gtried EXCEPT ![p] = FALSE]
    /\ gsince' = [gsince EXCEPT ![p] = (loadResult = "ok")]
    /\ UNCHANGED <<certManager, loadResult, generator, cache, mutex, nextBundle,
                   mintLog, returned>>

\* GetOrCreateCertificate, lines 56-57: RLock, read the cache.
GetOrCreate_RLock(p) ==
    /\ gpc[p] = "RLock"
    /\ mutex.writer = {}
    /\ mutex' = [mutex EXCEPT !.readers = @ \cup {p}]
    /\ gfound' = [gfound EXCEPT ![p] =
                    IF ghost[p] \in DOMAIN cache
                    THEN [cert |-> cache[ghost[p]], exists |-> TRUE]
                    ELSE [cert |-> NoCert, exists |-> FALSE]]
    /\ gpc' = [gpc EXCEPT ![p] = "RUnlock"]
    /\ UNCHANGED <<certManager, loadResult, generator, cache, ghost, gres, gtried,
                   gsince, calls, nextBundle, mintLog, returned>>

\* GetOrCreateCertificate, lines 58-64: RUnlock, return the entry or go on
\* to createAndStoreCertificate.
GetOrCreate_RUnlock(p) ==
    /\ gpc[p] = "RUnlock"
    /\ mutex' = [mutex EXCEPT !.readers = @ \ {p}]
    /\ IF gfound[p].exists
       THEN /\ gres' = [gres EXCEPT ![p] = [cert |-> gfound[p].cert, err |-> Nil]]
            /\ gpc' = [gpc EXCEPT ![p] = "return"]
       ELSE /\ gres' = gres
            /\ gpc' = [gpc EXCEPT ![p] = "Lock"]
    /\ UNCHANGED <<certManager, loadResult, generator, cache, ghost, gfound, gtried,
                   gsince, calls, nextBundle, mintLog, returned>>

\* createAndStoreCertificate, line 68: Lock.
CreateAndStore_Lock(p) ==
    /\ gpc[p] = "Lock"
    /\ mutex.writer = {}
    /\ mutex.readers = {}
    /\ mutex' = [mutex EXCEPT !.writer = {p}]
    /\ gpc' = [gpc EXCEPT ![p] = "recheck"]
    /\ UNCHANGED <<certManager, loadResult, generator, cache, ghost, gfound, gres,
                   gtried, gsince, calls, nextBundle, mintLog, returned>>

\* A createAndStoreCertificate that does not look at the cache again.
CreateAndStore_Recheck_skipped(p) ==
    /\ gpc[p] = "recheck"
    /\ gpc' = [gpc EXCEPT ![p] = "generate"]
    /\ UNCHANGED <<certManager, loadResult, generator, cache, mutex, ghost, gfound,
                   gres, gtried, gsince, calls, nextBundle, mintLog, returned>>

\* createAndStoreCertificate, lines 71-73: the second look at the cache.
CreateAndStore_Recheck(p) ==
    /\ gpc[p] = "recheck"
    /\ IF ghost[p] \in DOMAIN cache
       THEN /\ gres' = [gres EXCEPT ![p] = [cert |-> cache[ghost[p]], err |-> Nil]]
            /\ gpc' = [gpc EXCEPT ![p] = "Unlock"]
       ELSE /\ gres' = gres
            /\ gpc' = [gpc EXCEPT ![p] = "generate"]
    /\ UNCHANGED <<certManager, loadResult, generator, cache, mutex, ghost, gfound,
                   gtried, gsince, calls, nextBundle, mintLog, returned>>

\* A createAndStoreCertificate that stores what generateCertificate returned
\* before it looks at the error.
CreateAndStore_Generate_storeFirst(p) ==
    /\ gpc[p] = "generate"
    /\ \E e \in generateCertificate(generator) :
         LET cert == IF e = Nil THEN NewBundle(ghost[p], generator) ELSE NoCert
         IN  /\ e = Nil => nextBundle < MaxBundles
             /\ nextBundle' = IF e = Nil THEN nextBundle + 1 ELSE nextBundle
             /\ mintLog' = Append(mintLog, [host |-> ghost[p], err |-> e, cert |-> cert])
             /\ cache' = MapPut(cache, ghost[p], cert)
             /\ gres' = [gres EXCEPT ![p] = [cert |-> cert, err |-> e]]
    /\ gtried' = [gtried EXCEPT ![p] = TRUE]
    /\ gpc' = [gpc EXCEPT ![p] = "Unlock"]
    /\ UNCHANGED <<certManager, loadResult, generator, mutex, ghost, gfound, gsince,
                   calls, returned>>

\* createAndStoreCertificate, lines 75-81: generate; on an error return it,
\* otherwise insert the bundle and return it.
CreateAndStore_Generate(p) ==
    /\ gpc[p] = "generate"
    /\ \E e \in generateCertificate(generator) :
         LET cert == IF e = Nil THEN NewBundle(ghost[p], generator) ELSE NoCert
         IN  /\ e = Nil => nextBundle < MaxBundles
             /\ nextBundle' = IF e = Nil THEN nextBundle + 1 ELSE nextBundle
             /\ mintLog' = Append(mintLog, [host |-> ghost[p], err |-> e, cert |-> cert])
             /\ cache' = IF e = Nil THEN MapPut(cache, ghost[p], cert) ELSE cache
             /\ gres' = [gres EXCEPT ![p] = [cert |-> cert, err |-> e]]
    /\ gtried' = [gtried EXCEPT ![p] = TRUE]
    /\ gpc' = [gpc EXCEPT ![p] = "Unlock"]
    /\ UNCHANGED <<certManager, loadResult, generator, mutex, ghost, gfound, gsince,
                   calls, returned>>

\* createAndStoreCertificate, line 69: the deferred Unlock.
CreateAndStore_Unlock(p) ==
    /\ gpc[p] = "Unlock"
    /\ mutex' = [mutex EXCEPT !.writer = @ \ {p}]
    /\ gpc' = [gpc EXCEPT ![p] = "return"]
    /\ UNCHANGED <<certManager, loadResult, generator, cache, ghost, gfound, gres,
                   gtried, gsince, calls, nextBundle, mintLog, returned>>

\* The caller receives (cert, err).
ReturnGetCertificate(p) ==
    /\ gpc[p] = "return"
    /\ returned' = returned \cup
                     {[host |-> ghost[p], cert |-> gres[p].cert, err |-> gres[p].err]}
    /\ gpc' = [gpc EXCEPT ![p] = "idle"]
    /\ UNCHANGED <<certManager, loadResult, generator, cache, mutex, ghost, gfound,
                   gres, gtried, gsince, calls, nextBundle, mintLog>>

StoreStep(p) ==
    \/ GetOrCreate_RLock(p)
    \/ GetOrCreate_RUnlock(p)
    \/ CreateAndStore_Lock(p)
    \/ CreateAndStore_Recheck(p)
    \/ CreateAndStore_Generate(p)
    \/ CreateAndStore_Unlock(p)

(***************************************************************************)
(* SpecStore: goroutines of package proxy call LoadCA and GetCertificate.  *)
(* NewCertificateStore leaves the generator without CA material and no     *)
(* code of the package assigns it; the store whose generator holds CA      *)
(* material is included so that the paths of createAndStoreCertificate     *)
(* after a successful generateCertificate are covered as well.             *)
(***************************************************************************)
InitStore ==
    /\ certManager = [rootCertificate |-> Nil, privateKey |-> Nil]
    /\ loadResult = "none"
    /\ generator \in {NewCertificateStore.generator, GeneratorWith("k1")}
    /\ cache = NewCertificateStore.cache
    /\ mutex = [readers |-> {}, writer |-> {}]
    /\ gpc = [p \in Callers |-> "idle"]
    /\ ghost = [p \in Callers |-> <<>>]
    /\ gfound = [p \in Callers |-> [cert |-> NoCert, exists |-> FALSE]]
    /\ gres = [p \in Callers |-> NoResult]
    /\ gtried = [p \in Callers |-> FALSE]
    /\ gsince = [p \in Callers |-> FALSE]
    /\ calls = 0
    /\ nextBundle = 0
    /\ mintLog = <<>>
    /\ returned = {}

\* No program has been started and no connection accepted.
InitNoConn ==
    /\ entry = "none" /\ mainpc = "none" /\ lastAccept = "none" /\ cpc = "none"
    /\ reqLine = NoLine /\ method = <<>> /\ target = <<>> /\ version = <<>>
    /\ route = "none" /\ headers = <<>> /\ hdrLines = <<>> /\ body = <<>>
    /\ details = NoDetails
    /\ clientSock = "none" /\ originSock = "none"
    /\ sentRequest = <<>> /\ toOrigin = <<>> /\ toClient = <<>> /\ tlsState = "none" /\ tlsInput = <<>>
    /\ fromClient = <<>> /\ fromOrigin = <<>> /\ clientSent = 0 /\ originSent = 0
    /\ clientEOF = FALSE /\ originEOF = FALSE
    /\ c2o = "none" /\ c2oBuf = <<>> /\ o2cBuf = <<>>

InitStoreOnly == InitStore /\ InitNoConn

NextStore ==
    \/ \E cf \in CaFiles, kf \in CaFiles :
          calls = 0 /\ LoadCA(cf, kf) /\ UNCHANGED connVars
    \/ \E p \in Callers, h \in HostNames :
          CallGetCertificate(p, h) /\ UNCHANGED connVars
    \/ \E p \in Callers : StoreStep(p) /\ UNCHANGED connVars
    \/ \E p \in Callers : ReturnGetCertificate(p) /\ UNCHANGED connVars

SpecStore == InitStoreOnly /\ [][NextStore]_vars

(***************************************************************************)
(* SpecWarm: the store after a first GetCertificate("b.test") has minted   *)
(* and cached a bundle and returned it; calls counts the calls made from   *)
(* then on.                                                                *)
(***************************************************************************)
WarmHost == <<"b.test">>
WarmBundle == [id |-> 1, cn |-> WarmHost]

InitWarm ==
    /\ certManager = [rootCertificate |-> Nil, privateKey |-> Nil]
    /\ loadResult = "none"
    /\ generator = GeneratorWith("k1")
    /\ cache = MapPut(NewCertificateStore.cache, WarmHost, WarmBundle)
    /\ mutex = [readers |-> {}, writer |-> {}]
    /\ gpc = [p \in Callers |-> "idle"]
    /\ ghost = [p \in Callers |-> <<>>]
    /\ gfound = [p \in Callers |-> [cert |-> NoCert, exists |-> FALSE]]
    /\ gres = [p \in Callers |-> NoResult]
    /\ gtried = [p \in Callers |-> FALSE]
    /\ gsince = [p \in Callers |-> FALSE]
    /\ calls = 0
    /\ nextBundle = WarmBundle.id
    /\ mintLog = <<[host |-> WarmHost, err |-> Nil, cert |-> WarmBundle]>>
    /\ returned = {[host |-> WarmHost, cert |-> WarmBundle, err |-> Nil]}
    /\ InitNoConn

SpecWarm == InitWarm /\ [][NextStore]_vars

(***************************************************************************)
(* Library functions the handlers call.                                    *)
(***************************************************************************)
\* url.Parse on the targets of the model: the error, Scheme, Host, Hostname(),
\* Port() and RequestURI().  A target "host:port" parses as scheme "host" with
\* opaque part "port"; a target without "//" has no host.
UrlRecord(e, scheme, host, hostname, port, uri) ==
    [err |-> e, scheme |-> scheme, host |-> host, hostname |-> hostname,
     port |-> port, uri |-> uri]

urlParse(t) ==
    CASE t = <<"http", ":", "//a.test/p">> ->
           UrlRecord(Nil, <<"http">>, <<"a.test">>, <<"a.test">>, <<>>, <<"/p">>)
      [] t = <<"http", ":", "//a.test">> ->
           UrlRecord(Nil, <<"http">>, <<"a.test">>, <<"a.test">>, <<>>, <<"/">>)
      [] t = <<"https", ":", "//a.test/p">> ->
           UrlRecord(Nil, <<"https">>, <<"a.test">>, <<"a.test">>, <<>>, <<"/p">>)
      [] t = <<"http", ":", "//a.test", ":", "8080/p">> ->
           UrlRecord(Nil, <<"http">>, <<"a.test", ":", "8080">>, <<"a.test">>,
                     <<"8080">>, <<"/p">>)
      [] t = <<"http", ":", "//a.test/%zz">> ->
           UrlRecord("escape", <<>>, <<>>, <<>>, <<>>, <<>>)
      [] t = <<"a.test", ":", "443">> ->
           UrlRecord(Nil, <<"a.test">>, <<>>, <<>>, <<>>, <<"443">>)
      [] t = <<"a.test">> ->
           UrlRecord(Nil, <<>>, <<>>, <<>>, <<>>, <<"a.test">>)
      [] OTHER ->
           UrlRecord(Nil, <<>>, <<>>, <<>>, <<>>, <<"/">>)

\* net.SplitHostPort for a target without brackets: host and port around the
\* only colon; two empty strings (and an error) when there are more colons.
splitHostPort(t) ==
    LET parts == SplitN(t, ":", 2)
    IN  IF Len(parts) = 2 /\ ~Contains(parts[2], ":")
        THEN [host |-> parts[1], port |-> parts[2]]
        ELSE [host |-> <<>>, port |-> <<>>]

\* net.Conn.Close, as the deferred calls of the handlers make it.
deferClientClose(sock) == "closed"
deferTargetClose_missing(sock) == sock
deferTargetClose(sock) == "closed"
deferTLSClose(sock) == "closed"
deferServerClose(sock) == "closed"

\* The orders in which a range over a map with key set S visits the keys.
Orders(S) ==
    {f \in [1..Cardinality(S) -> S] : \A i, j \in 1..Cardinality(S) : f[i] = f[j] => i = j}

\* The goroutine that handles the connection.
connProc == CHOOSE p \in Callers : \A q \in Callers : p <= q

\* What ReadString('\n') returns for the first line: a line, or an error with
\* the bytes before it.
FirstReads ==
    [err : {Nil}, line : RequestLines] \cup {[err |-> "EOF", line |-> <<"GET">>]}

\* What ReadString('\n') returns for a header line.
HeaderReads ==
    [err : {Nil}, line : HeaderLinesSent \cup {BlankLine}] \cup {[err |-> "EOF", line |-> <<>>]}

\* What ReadString('\n') returns after a request line with target t and
\* version v: header lines follow only a request line that the client formed
\* of a method, one of Targets and HTTP/1.1; after any other line the client
\* ends the headers at once or closes.
HeaderReadsAfter(t, v) ==
    IF t \in Targets /\ v = <<"HTTP/1.1">> THEN HeaderReads
    ELSE {in \in HeaderReads : in.err # Nil \/ in.line = BlankLine}

(***************************************************************************)
(* main and the accept loops.                                              *)
(***************************************************************************)
\* run, lines 40-42: LoadCA("ca.crt", "ca.key"); an error ends the program.
Main_LoadCA(certFile, keyFile) ==
    /\ entry = "mitm" /\ mainpc = "run"
    /\ LoadCA(certFile, keyFile)
    /\ mainpc' = IF loadResult' = "ok" THEN "StartProxy" ELSE "exit"
    /\ UNCHANGED <<entry, lastAccept, cpc, reqVars, sockVars, relayVars>>

\* StartProxy / ProxyListener.serve and ProxyServer.Initialize: net.Listen.
Main_Listen ==
    /\ \/ entry = "mitm" /\ mainpc = "StartProxy"
       \/ entry = "http" /\ mainpc = "Initialize"
    /\ \E ok \in BOOLEAN : mainpc' = IF ok THEN "Accept" ELSE "exit"
    /\ UNCHANGED <<storeVars, entry, lastAccept, cpc, reqVars, sockVars, relayVars>>

\* An accept loop that ends when Accept fails.
Accept_errorEndsLoop ==
    /\ mainpc = "Accept" /\ cpc = "none"
    /\ \E r \in {"error", "conn"} :
         /\ lastAccept' = r
         /\ mainpc' = IF r = "conn" THEN mainpc ELSE "exit"
         /\ cpc' = IF r = "conn" THEN "request_line" ELSE cpc
         /\ clientSock' = IF r = "conn" THEN "open" ELSE clientSock
    /\ UNCHANGED <<storeVars, entry, reqVars, originSock, sentRequest, toOrigin,
                   toClient, tlsState, tlsInput, relayVars>>

\* acceptSingleConnection / processConnections: Accept fails, or returns a
\* connection, which a new goroutine handles.
Accept ==
    /\ mainpc = "Accept" /\ cpc = "none"
    /\ \E r \in {"error", "conn"} :
         /\ lastAccept' = r
         /\ cpc' = IF r = "conn" THEN "request_line" ELSE cpc
         /\ clientSock' = IF r = "conn" THEN "open" ELSE clientSock
    /\ UNCHANGED <<storeVars, entry, mainpc, reqVars, originSock, sentRequest, toOrigin,
                   toClient, tlsState, tlsInput, relayVars>>

(***************************************************************************)
(* handleClient and RequestProcessor.                                      *)
(***************************************************************************)
\* parseRequestLine: the three components, or an error.
parseRequestLine(line) ==
    LET components == SplitN(line, " ", 3)
    IN  IF Len(components) # 3 THEN [err |-> "format", parts |-> <<>>]
        ELSE [err |-> Nil, parts |-> components]

\* parseInitialRequest on what ReadString returned.
parseInitialRequest(in) ==
    IF in.err # Nil \/ TrimSpace(in.line) = <<>> THEN [err |-> "read", parts |-> <<>>]
    ELSE parseRequestLine(TrimSpace(in.line))

\* isTLSConnection
isTLSConnection(m) == ToUpper(m) = <<"CONNECT">>

\* handleClient, lines 371-379: read and parse the first line; on an error
\* return, which closes the client connection.
HC_ParseInitialRequestFrom(reads) ==
    /\ entry = "mitm" /\ cpc = "request_line"
    /\ \E in \in reads :
         LET r == parseInitialRequest(in)
         IN  /\ reqLine' = in
             /\ IF r.err = Nil
                THEN /\ method' = r.parts[1] /\ target' = r.parts[2]
                     /\ version' = r.parts[3]
                     /\ cpc' = "dispatch"
                     /\ clientSock' = clientSock
                ELSE /\ UNCHANGED <<method, target, version>>
                     /\ cpc' = "done"
                     /\ clientSock' = deferClientClose(clientSock)
    /\ UNCHANGED <<storeVars, mainVars, route, headers, hdrLines, body, details,
                   originSock, sentRequest, toOrigin, toClient, tlsState, tlsInput, relayVars>>

\* handleClient reading one of the first lines clients send.
HC_ParseInitialRequest == HC_ParseInitialRequestFrom(FirstReads)

\* handleClient, lines 381-385: the TLS bridge for CONNECT, plain forward otherwise.
HC_Dispatch ==
    /\ entry = "mitm" /\ cpc = "dispatch"
    /\ IF isTLSConnection(method)
       THEN route' = "tls" /\ cpc' = "secure"
       ELSE route' = "plain" /\ cpc' = "collect_headers"
    /\ reqLine' = NoLine
    /\ UNCHANGED <<storeVars, mainVars, method, target, version, headers, hdrLines, body,
                   details, sockVars, relayVars>>

\* The bodies a client sends after the blank line that ends the headers.
Bodies == { <<>>, <<"b">> }

\* parseHeader: the lower-cased name and the value, or two empty strings.
parseHeader(line) ==
    LET parts == SplitN(TrimSpace(line), ":", 2)
    IN  IF Len(parts) # 2 THEN [key |-> <<>>, value |-> <<>>]
        ELSE [key |-> ToLower(TrimSpace(parts[1])), value |-> TrimSpace(parts[2])]

\* collectHeaders, one turn of the loop: a read error or a blank line ends it.
\* What the client sends after the blank line is never read by this handler.
HC_CollectHeadersFrom(reads) ==
    /\ entry = "mitm" /\ cpc = "collect_headers"
    /\ \E in \in reads :
         /\ Len(hdrLines) < MaxHeaders \/ in.err # Nil \/ in.line = BlankLine
         /\ IF in.err # Nil \/ TrimSpace(in.line) = <<>>
            THEN /\ cpc' = "plain" /\ UNCHANGED <<headers, hdrLines>>
                 /\ IF in.err = Nil /\ method \notin {<<"GET">>, <<"HEAD">>}
                    THEN fromClient' \in Bodies
                    ELSE fromClient' = fromClient
            ELSE /\ cpc' = cpc
                 /\ hdrLines' = Append(hdrLines, in.line)
                 /\ headers' = IF parseHeader(in.line).key # <<>>
                               THEN MapPut(headers, parseHeader(in.line).key,
                                           parseHeader(in.line).value)
                               ELSE headers
                 /\ fromClient' = fromClient
    /\ UNCHANGED <<storeVars, mainVars, reqLine, method, target, version, route, body,
                   details, sockVars, fromOrigin, clientSent, originSent, clientEOF,
                   originEOF, c2o, c2oBuf, o2cBuf>>

HC_CollectHeaders == HC_CollectHeadersFrom(HeaderReadsAfter(target, version))

\* determinePort
determinePort(u) ==
    IF u.port # <<>> THEN u.port
    ELSE IF u.scheme = <<"https">> THEN <<"443">> ELSE <<"80">>

\* determinePath
determinePath(u) == IF u.uri # <<>> THEN u.uri ELSE <<"/">>

\* handlePlainConnection after collectHeaders, and forwardHTTPRequest up to
\* the dial: a URL that does not parse or a failed dial ends the handler.
HC_HandlePlainConnection ==
    /\ entry = "mitm" /\ cpc = "plain"
    /\ LET u == urlParse(target)
       IN  \E dialOk \in BOOLEAN :
             IF u.err = Nil /\ dialOk
             THEN /\ details' = [host |-> u.hostname, port |-> determinePort(u),
                                 path |-> determinePath(u)]
                  /\ originSock' = "open"
                  /\ cpc' = "send"
                  /\ clientSock' = clientSock
             ELSE /\ details' = details
                  /\ originSock' = originSock
                  /\ cpc' = "done"
                  /\ clientSock' = deferClientClose(clientSock)
    /\ UNCHANGED <<storeVars, mainVars, reqLine, method, target, version, route, headers,
                   hdrLines, body, sentRequest, toOrigin, toClient, tlsState, tlsInput, relayVars>>

Header(n, v) == [name |-> n, value |-> v]

\* A sendModifiedRequest that compares the map key with the canonical spelling.
forwardedHeaders_canonical(hs, order) ==
    SelectSeq([i \in DOMAIN order |-> Header(order[i], hs[order[i]])],
              LAMBDA h : h.name # <<"Proxy-Connection">>)

\* sendModifiedRequest, lines 551-555: the headers written, for one order of
\* the range over the map.
forwardedHeaders(hs, order) ==
    SelectSeq([i \in DOMAIN order |-> Header(order[i], hs[order[i]])],
              LAMBDA h : ToLower(h.name) # <<"proxy-connection">>)

\* A sendModifiedRequest that looks the Host entry up under its canonical spelling.
needsHost_canonical(hs) == <<"Host">> \notin DOMAIN hs

\* sendModifiedRequest, line 557: whether a Host header is added.
needsHost(hs) == <<"host">> \notin DOMAIN hs

\* sendModifiedRequest: the request written to the origin.
modifiedRequest(m, path, v, hs, order, host, b) ==
    [line |-> <<m, path, v>>,
     headers |-> forwardedHeaders(hs, order)
                   \o (IF needsHost(hs) THEN <<Header(<<"Host">>, host)>> ELSE <<>>),
     synth |-> needsHost(hs),
     body |-> b]

\* forwardHTTPRequest, line 467: sendModifiedRequest, whose error is dropped.
\* RequestProcessor.requestBody is never assigned, so the body is empty.
HC_SendModifiedRequest ==
    /\ entry = "mitm" /\ cpc = "send"
    /\ \E order \in Orders(DOMAIN headers), written \in BOOLEAN :
         sentRequest' =
            IF written
            THEN Append(sentRequest,
                        modifiedRequest(method, details.path, version, headers, order,
                                        details.host, <<>>))
            ELSE sentRequest
    /\ cpc' = "relay_response"
    /\ UNCHANGED <<storeVars, mainVars, reqVars, clientSock, originSock, toOrigin,
                   toClient, tlsState, tlsInput, relayVars>>

\* The handler returns from the plain path: both deferred Close calls run.
PlainReturn ==
    /\ cpc' = "done"
    /\ originSock' = deferTargetClose(originSock)
    /\ clientSock' = deferClientClose(clientSock)

\* relayData / relayResponse, one turn of the loop: read from the origin
\* under a 5 second deadline, write what was read to the client; the end of
\* the stream, an expired deadline or a failed write end the loop.
RelayResponse ==
    /\ cpc = "relay_response"
    /\ \/ /\ fromOrigin # <<>>
          /\ fromOrigin' = Tail(fromOrigin)
          /\ \E written \in BOOLEAN :
               IF written
               THEN /\ toClient' = Append(toClient, <<"byte", Head(fromOrigin)>>)
                    /\ UNCHANGED <<cpc, originSock, clientSock>>
               ELSE toClient' = toClient /\ PlainReturn
       \/ /\ fromOrigin = <<>>
          /\ UNCHANGED <<fromOrigin, toClient>>
          /\ PlainReturn
    /\ UNCHANGED <<storeVars, mainVars, reqVars, sentRequest, toOrigin, tlsState, tlsInput,
                   fromClient, clientSent, originSent, clientEOF, originEOF,
                   c2o, c2oBuf, o2cBuf>>

(***************************************************************************)
(* The TLS bridge: handleSecureConnection and TLSConnectionManager.        *)
(***************************************************************************)
\* extractHostAndPort
extractHostAndPort(t) ==
    IF ~Contains(t, ":") THEN [host |-> t, port |-> <<"443">>]
    ELSE splitHostPort(t)

StatusLine == <<"status", 200>>

\* handleSecureConnection and establishTLSConnection, lines 472-496: write
\* the 200 response (the result of the Write is dropped) and ask the store
\* for the bundle of the host.
Sec_Establish ==
    /\ entry = "mitm" /\ cpc = "secure"
    /\ details' = [host |-> extractHostAndPort(target).host,
                   port |-> extractHostAndPort(target).port, path |-> <<>>]
    /\ \E written \in BOOLEAN :
         toClient' = IF written THEN Append(toClient, StatusLine) ELSE toClient
    /\ CallGetCertificate(connProc, extractHostAndPort(target).host)
    /\ cpc' = "cert"
    /\ UNCHANGED <<mainVars, reqLine, method, target, version, route, headers, hdrLines,
                   body, clientSock, originSock, sentRequest, toOrigin, tlsState, tlsInput,
                   relayVars>>

\* The handler's goroutine inside GetOrCreateCertificate.
Sec_StoreStep ==
    /\ cpc = "cert"
    /\ StoreStep(connProc)
    /\ UNCHANGED connVars

\* establishTLSConnection, lines 496-505: an error of getOrGenerateCert ends
\* the handler; otherwise the client connection is wrapped by tls.Server.
Sec_CertReturned ==
    /\ cpc = "cert"
    /\ ReturnGetCertificate(connProc)
    /\ IF gres[connProc].err # Nil
       THEN cpc' = "done" /\ clientSock' = deferClientClose(clientSock)
       ELSE cpc' = "handshake" /\ clientSock' = clientSock
    /\ UNCHANGED <<mainVars, reqVars, originSock, sentRequest, toOrigin, toClient,
                   tlsState, tlsInput, relayVars>>

\* The first message of a TLS handshake, as one item.
ClientHello == <<"ClientHello">>

\* What a client sends between its CONNECT request line and its ClientHello.
ConnectHeaderBlocks ==
    { BlankLine, <<"Host", ":", " ", "a.test", "\r", "\n">> \o BlankLine }

\* What tls.Server reads from the connection when the client has sent block
\* and a ClientHello after the request line, and the bufio.Reader of
\* handleClient took the first `buffered` items of them into its buffer
\* together with the request line.
handshakeInput(block, buffered) ==
    SubSeq(block \o ClientHello, buffered + 1, Len(block \o ClientHello))

\* A handshake whose error is dropped.
Sec_Handshake_errorDropped ==
    /\ cpc = "handshake"
    /\ \E block \in ConnectHeaderBlocks, ok \in BOOLEAN :
       \E buffered \in 0..Len(block \o ClientHello) :
         /\ tlsInput' = handshakeInput(block, buffered)
         /\ ok => tlsInput' = ClientHello
         /\ tlsState' = IF ok THEN "ok" ELSE "failed"
         /\ cpc' = "tls_dial"
         /\ clientSock' = clientSock
    /\ UNCHANGED <<storeVars, mainVars, reqVars, originSock, sentRequest, toOrigin,
                   toClient, relayVars>>

\* establishTLSConnection, lines 501-511: tls.Server on the connection itself
\* (not on the bufio.Reader that read the request line) and the handshake
\* with the client, which succeeds only on a ClientHello; on an error the
\* handler returns and the deferred Close calls run.
Sec_Handshake ==
    /\ cpc = "handshake"
    /\ \E block \in ConnectHeaderBlocks, ok \in BOOLEAN :
       \E buffered \in 0..Len(block \o ClientHello) :
         /\ tlsInput' = handshakeInput(block, buffered)
         /\ ok => tlsInput' = ClientHello
         /\ IF ok
            THEN tlsState' = "ok" /\ cpc' = "tls_dial" /\ clientSock' = clientSock
            ELSE /\ tlsState' = "failed" /\ cpc' = "done"
                 /\ clientSock' = deferClientClose(deferTLSClose(clientSock))
    /\ UNCHANGED <<storeVars, mainVars, reqVars, originSock, sentRequest, toOrigin,
                   toClient, relayVars>>

\* connectToRemoteServer, lines 515-523: tls.Dial to the origin; on success
\* the goroutine that copies from the client to the origin is started.
Sec_ConnectToRemoteServer ==
    /\ cpc = "tls_dial"
    /\ \E ok \in BOOLEAN :
         IF ok
         THEN /\ originSock' = "open" /\ c2o' = "read" /\ cpc' = "relay"
              /\ clientSock' = clientSock
         ELSE /\ originSock' = originSock /\ c2o' = c2o /\ cpc' = "done"
              /\ clientSock' = deferClientClose(deferTLSClose(clientSock))
    /\ UNCHANGED <<storeVars, mainVars, reqVars, sentRequest, toOrigin, toClient,
                   tlsState, tlsInput, fromClient, fromOrigin, clientSent, originSent, clientEOF,
                   originEOF, c2oBuf, o2cBuf>>

\* go io.Copy(serverConn, clientTLS), the Read: bytes, or the end of the
\* stream, or an error once the handler has closed the client connection.
C2O_Read ==
    /\ c2o = "read"
    /\ IF clientSock = "closed" THEN c2o' = "done" /\ UNCHANGED <<fromClient, c2oBuf>>
       ELSE IF fromClient # <<>>
       THEN /\ c2oBuf' = <<Head(fromClient)>> /\ fromClient' = Tail(fromClient)
            /\ c2o' = "write"
       ELSE /\ clientEOF
            /\ c2o' = "done" /\ UNCHANGED <<fromClient, c2oBuf>>
    /\ UNCHANGED <<storeVars, mainVars, cpc, reqVars, sockVars, fromOrigin, clientSent,
                   originSent, clientEOF, originEOF, o2cBuf>>

\* go io.Copy(serverConn, clientTLS), the Write: it fails once the handler
\* has closed the origin connection, and can fail once the origin has closed.
C2O_Write ==
    /\ c2o = "write"
    /\ \E written \in BOOLEAN :
         /\ written => originSock = "open"
         /\ ~written => (originSock = "closed" \/ originEOF)
         /\ toOrigin' = IF written THEN toOrigin \o c2oBuf ELSE toOrigin
         /\ c2o' = IF written THEN "read" ELSE "done"
    /\ c2oBuf' = <<>>
    /\ UNCHANGED <<storeVars, mainVars, cpc, reqVars, clientSock, originSock, sentRequest,
                   toClient, tlsState, tlsInput, fromClient, fromOrigin, clientSent, originSent,
                   clientEOF, originEOF, o2cBuf>>

\* connectToRemoteServer returns: the deferred Close calls of serverConn,
\* tlsConn and clientConn run.
BridgeReturn ==
    /\ cpc' = "done"
    /\ originSock' = deferServerClose(originSock)
    /\ clientSock' = deferClientClose(deferTLSClose(clientSock))

\* A Read that returns the bytes of the origin without consuming them.
O2C_Read_notConsumed ==
    /\ cpc = "relay"
    /\ IF fromOrigin # <<>>
       THEN /\ o2cBuf' = <<Head(fromOrigin)>> /\ fromOrigin' = fromOrigin
            /\ cpc' = "relay_write"
            /\ UNCHANGED <<originSock, clientSock>>
       ELSE /\ originEOF
            /\ UNCHANGED <<o2cBuf, fromOrigin>>
            /\ BridgeReturn
    /\ UNCHANGED <<storeVars, mainVars, reqVars, sentRequest, toOrigin, toClient, tlsState, tlsInput,
                   fromClient, clientSent, originSent, clientEOF, originEOF, c2o, c2oBuf>>

\* io.Copy(clientTLS, serverConn), the Read: bytes, or the end of the stream,
\* after which connectToRemoteServer returns.
O2C_Read ==
    /\ cpc = "relay"
    /\ IF fromOrigin # <<>>
       THEN /\ o2cBuf' = <<Head(fromOrigin)>> /\ fromOrigin' = Tail(fromOrigin)
            /\ cpc' = "relay_write"
            /\ UNCHANGED <<originSock, clientSock>>
       ELSE /\ originEOF
            /\ UNCHANGED <<o2cBuf, fromOrigin>>
            /\ BridgeReturn
    /\ UNCHANGED <<storeVars, mainVars, reqVars, sentRequest, toOrigin, toClient, tlsState, tlsInput,
                   fromClient, clientSent, originSent, clientEOF, originEOF, c2o, c2oBuf>>

\* io.Copy(clientTLS, serverConn), the Write: it can fail once the client
\* has closed, after which connectToRemoteServer returns.
O2C_Write ==
    /\ cpc = "relay_write"
    /\ \E written \in BOOLEAN :
         /\ ~written => clientEOF
         /\ IF written
            THEN /\ toClient' = toClient \o <<<<"byte", o2cBuf[1]>>>>
                 /\ cpc' = "relay"
                 /\ UNCHANGED <<originSock, clientSock>>
            ELSE toClient' = toClient /\ BridgeReturn
    /\ o2cBuf' = <<>>
    /\ UNCHANGED <<storeVars, mainVars, reqVars, sentRequest, toOrigin, tlsState, tlsInput,
                   fromClient, fromOrigin, clientSent, originSent, clientEOF, originEOF,
                   c2o, c2oBuf>>

(***************************************************************************)
(* The client and the origin.                                              *)
(***************************************************************************)
InBridge == cpc \in {"handshake", "tls_dial", "relay", "relay_write"}

\* The handler relays: the origin answers what has been sent to it.
Relaying == cpc \in {"relay_response", "relay", "relay_write"}

\* The client sends a byte inside TLS, the n-th at most.
ClientSendUpTo(n) ==
    /\ InBridge /\ ~clientEOF /\ clientSent < n
    /\ clientSent' = clientSent + 1
    /\ fromClient' = Append(fromClient, clientSent + 1)
    /\ UNCHANGED <<storeVars, mainVars, cpc, reqVars, sockVars, fromOrigin, originSent,
                   clientEOF, originEOF, c2o, c2oBuf, o2cBuf>>

ClientSend == ClientSendUpTo(MaxBytes)

\* The client closes its connection.
ClientClose ==
    /\ InBridge /\ ~clientEOF
    /\ clientEOF' = TRUE
    /\ UNCHANGED <<storeVars, mainVars, cpc, reqVars, sockVars, fromClient, fromOrigin,
                   clientSent, originSent, originEOF, c2o, c2oBuf, o2cBuf>>

\* The origin sends a byte, the n-th at most.
OriginSendUpTo(n) ==
    /\ Relaying /\ originSock = "open" /\ ~originEOF /\ originSent < n
    /\ originSent' = originSent + 1
    /\ fromOrigin' = Append(fromOrigin, originSent + 1)
    /\ UNCHANGED <<storeVars, mainVars, cpc, reqVars, sockVars, fromClient, clientSent,
                   clientEOF, originEOF, c2o, c2oBuf, o2cBuf>>

OriginSend == OriginSendUpTo(MaxBytes)

\* The origin closes its connection.
OriginClose ==
    /\ Relaying /\ originSock = "open" /\ ~originEOF
    /\ originEOF' = TRUE
    /\ UNCHANGED <<storeVars, mainVars, cpc, reqVars, sockVars, fromClient, fromOrigin,
                   clientSent, originSent, clientEOF, c2o, c2oBuf, o2cBuf>>

(***************************************************************************)
(* ConnectionHandler.ProcessRequest, the handler of ProxyServer.           *)
(***************************************************************************)
\* readRequestLine on what ReadString returned.
readRequestLine(in) ==
    LET parts == Fields(TrimSpace(in.line))
    IN  IF in.err # Nil THEN [err |-> "read", parts |-> <<>>]
        ELSE IF Len(parts) # 3 THEN [err |-> "format", parts |-> <<>>]
        ELSE [err |-> Nil, parts |-> parts]

\* ProcessRequest and parseIncomingRequest, lines 178-194: read the first
\* line; on an error return, which closes the client connection.
PR_ReadRequestLineFrom(reads) ==
    /\ entry = "http" /\ cpc = "request_line"
    /\ \E in \in reads :
         LET r == readRequestLine(in)
         IN  /\ reqLine' = in
             /\ IF r.err = Nil
                THEN /\ method' = r.parts[1] /\ target' = r.parts[2]
                     /\ version' = r.parts[3]
                     /\ cpc' = "parse_headers"
                     /\ clientSock' = clientSock
                ELSE /\ UNCHANGED <<method, target, version>>
                     /\ cpc' = "done"
                     /\ clientSock' = deferClientClose(clientSock)
    /\ UNCHANGED <<storeVars, mainVars, route, headers, hdrLines, body, details,
                   originSock, sentRequest, toOrigin, toClient, tlsState, tlsInput, relayVars>>

\* ProcessRequest reading one of the first lines clients send.
PR_ReadRequestLine == PR_ReadRequestLineFrom(FirstReads)

\* parseHeaderLine on a trimmed line: the header, or none.
parseHeaderLine(line) ==
    LET parts == SplitN(line, ":", 2)
    IN  IF Len(parts) # 2 THEN <<>>
        ELSE IF ToLower(TrimSpace(parts[1])) = <<"proxy-connection">> THEN <<>>
        ELSE <<Header(TrimSpace(parts[1]), TrimSpace(parts[2]))>>

\* parseHeaders, one turn of the loop: a read error ends the handler, a blank
\* line ends the loop.
PR_ParseHeadersFrom(reads) ==
    /\ entry = "http" /\ cpc = "parse_headers"
    /\ \E in \in reads :
         /\ Len(hdrLines) < MaxHeaders \/ in.err # Nil \/ in.line = BlankLine
         /\ IF in.err # Nil
            THEN /\ cpc' = "done" /\ clientSock' = deferClientClose(clientSock)
                 /\ UNCHANGED <<headers, hdrLines>>
            ELSE IF TrimSpace(in.line) = <<>>
            THEN cpc' = "read_body" /\ UNCHANGED <<headers, hdrLines, clientSock>>
            ELSE /\ cpc' = cpc /\ clientSock' = clientSock
                 /\ hdrLines' = Append(hdrLines, in.line)
                 /\ headers' = headers \o parseHeaderLine(TrimSpace(in.line))
    /\ reqLine' = NoLine
    /\ UNCHANGED <<storeVars, mainVars, method, target, version, route, body, details,
                   originSock, sentRequest, toOrigin, toClient, tlsState, tlsInput, relayVars>>

PR_ParseHeaders == PR_ParseHeadersFrom(HeaderReadsAfter(target, version))

\* readRequestBody: nothing for GET and HEAD; otherwise read under a 5 second
\* deadline until the client closes its side (the end of the stream); when
\* the client keeps the connection open the deadline expires, and that error
\* ends the handler.
PR_ReadRequestBody ==
    /\ entry = "http" /\ cpc = "read_body"
    /\ IF method = <<"GET">> \/ method = <<"HEAD">>
       THEN cpc' = "forward" /\ UNCHANGED <<body, clientSock, clientEOF>>
       ELSE \E b \in Bodies, e \in {"EOF", "timeout"} :
              /\ body' = b
              /\ clientEOF' = (e = "EOF")
              /\ IF e = "EOF"
                 THEN cpc' = "forward" /\ clientSock' = clientSock
                 ELSE cpc' = "done" /\ clientSock' = deferClientClose(clientSock)
    /\ UNCHANGED <<storeVars, mainVars, reqLine, method, target, version, route, headers,
                   hdrLines, details, originSock, sentRequest, toOrigin, toClient,
                   tlsState, tlsInput, fromClient, fromOrigin, clientSent, originSent, originEOF,
                   c2o, c2oBuf, o2cBuf>>

\* establishConnection: the host and port dialed.
establishConnection(u) ==
    [host |-> u.hostname, port |-> IF u.port = <<>> THEN <<"80">> ELSE u.port]

\* ProcessRequest, line 184, and forwardToDestination, lines 283-292: every
\* request of this handler is forwarded plainly; a URL that does not parse or
\* a failed dial ends the handler.
PR_ForwardToDestination ==
    /\ entry = "http" /\ cpc = "forward"
    /\ LET u == urlParse(target)
       IN  \E dialOk \in BOOLEAN :
             IF u.err = Nil /\ dialOk
             THEN /\ details' = [host |-> establishConnection(u).host,
                                 port |-> establishConnection(u).port, path |-> <<"/">>]
                  /\ originSock' = "open"
                  /\ cpc' = "send"
                  /\ clientSock' = clientSock
             ELSE /\ details' = details
                  /\ originSock' = originSock
                  /\ cpc' = "done"
                  /\ clientSock' = deferClientClose(clientSock)
    /\ route' = "plain"
    /\ UNCHANGED <<storeVars, mainVars, reqLine, method, target, version, headers,
                   hdrLines, body, sentRequest, toOrigin, toClient, tlsState, tlsInput, relayVars>>

\* hasHeader
hasHeader(hs, name) == \E i \in DOMAIN hs : ToLower(hs[i].name) = ToLower(name)

\* sendRequest: the request written to the origin.
builtRequest(m, v, hs, host, b) ==
    [line |-> <<m, <<"/">>, v>>,
     headers |-> hs \o (IF ~hasHeader(hs, <<"Host">>)
                        THEN <<Header(<<"Host">>, host)>> ELSE <<>>),
     synth |-> ~hasHeader(hs, <<"Host">>),
     body |-> b]

\* forwardToDestination, lines 294-298: sendRequest; a failed Write ends the
\* handler.
PR_SendRequest ==
    /\ entry = "http" /\ cpc = "send"
    /\ \E written \in BOOLEAN :
         IF written
         THEN /\ sentRequest' = Append(sentRequest,
                                   builtRequest(method, version, headers,
                                                urlParse(target).host, body))
              /\ cpc' = "relay_response"
              /\ UNCHANGED <<originSock, clientSock>>
         ELSE sentRequest' = sentRequest /\ PlainReturn
    /\ UNCHANGED <<storeVars, mainVars, reqVars, toOrigin, toClient, tlsState, tlsInput, relayVars>>

(***************************************************************************)
(* SpecConn: one of the two programs starts and handles one connection.    *)
(* As in SpecStore the generator with CA material is included beside the   *)
(* one NewCertificateStore builds, so that the TLS bridge is covered.      *)
(***************************************************************************)
InitConn ==
    /\ InitStore
    /\ entry \in {"mitm", "http"}
    /\ entry = "http" => generator = NewCertificateStore.generator
    /\ mainpc = IF entry = "mitm" THEN "run" ELSE "Initialize"
    /\ lastAccept = "none" /\ cpc = "none"
    /\ reqLine = NoLine /\ method = <<>> /\ target = <<>> /\ version = <<>>
    /\ route = "none" /\ headers = <<>> /\ hdrLines = <<>> /\ body = <<>>
    /\ details = NoDetails
    /\ clientSock = "none" /\ originSock = "none"
    /\ sentRequest = <<>> /\ toOrigin = <<>> /\ toClient = <<>> /\ tlsState = "none" /\ tlsInput = <<>>
    /\ fromClient = <<>> /\ fromOrigin = <<>> /\ clientSent = 0 /\ originSent = 0
    /\ clientEOF = FALSE /\ originEOF = FALSE
    /\ c2o = "none" /\ c2oBuf = <<>> /\ o2cBuf = <<>>

\* The steps of the handler and of the goroutine it starts.
HandlerStep ==
    \/ HC_ParseInitialRequest
    \/ HC_Dispatch
    \/ HC_CollectHeaders
    \/ HC_HandlePlainConnection
    \/ HC_SendModifiedRequest
    \/ RelayResponse
    \/ Sec_Establish
    \/ Sec_StoreStep
    \/ Sec_CertReturned
    \/ Sec_Handshake
    \/ Sec_ConnectToRemoteServer
    \/ C2O_Read
    \/ C2O_Write
    \/ O2C_Read
    \/ O2C_Write
    \/ PR_ReadRequestLine
    \/ PR_ParseHeaders
    \/ PR_ReadRequestBody
    \/ PR_ForwardToDestination
    \/ PR_SendRequest

NextConn ==
    \/ \E cf \in StartupFiles, kf \in StartupFiles : Main_LoadCA(cf, kf)
    \/ Main_Listen
    \/ Accept
    \/ HandlerStep
    \/ ClientSend
    \/ ClientClose
    \/ OriginSend
    \/ OriginClose

SpecConn == InitConn /\ [][NextConn]_vars

(***************************************************************************)
(* SpecLoop: the accept loop goes on after a connection.  The model follows *)
(* one handler at a time: once it has returned and its goroutine has       *)
(* ended, the next connection the loop accepts gets a new handler.  Beside *)
(* it the goroutine of another connection calls GetCertificate.  The       *)
(* clients send one of LoopLines, no header lines, and no data after the   *)
(* TLS handshake.                                                          *)
(***************************************************************************)
LoopLines ==
    { <<"CONNECT", " ", "a.test", ":", "443", " ", "HTTP/1.1", "\r", "\n">>,
      <<"CONNECT", " ", "a.test", "\r", "\n">>,
      <<"GET", " ", "http", ":", "//a.test/p", " ", "HTTP/1.1", "\r", "\n">>,
      <<"POST", " ", "http", ":", "//a.test/%zz", " ", "HTTP/1.1", "\r", "\n">> }

\* The goroutine of the other connection.
otherProc == CHOOSE p \in Callers : p # connProc

\* The accept loop takes its next turn after the handler it started has
\* returned: Accept fails, or returns a connection for a new handler.
AcceptNext ==
    /\ mainpc = "Accept" /\ cpc = "done" /\ c2o \in {"none", "done"}
    /\ \E r \in {"error", "conn"} :
         /\ lastAccept' = r
         /\ IF r = "conn"
            THEN /\ cpc' = "request_line" /\ clientSock' = "open"
                 /\ reqLine' = NoLine /\ method' = <<>> /\ target' = <<>>
                 /\ version' = <<>> /\ route' = "none" /\ headers' = <<>>
                 /\ hdrLines' = <<>> /\ body' = <<>> /\ details' = NoDetails
                 /\ originSock' = "none" /\ sentRequest' = <<>> /\ toOrigin' = <<>>
                 /\ toClient' = <<>> /\ tlsState' = "none" /\ tlsInput' = <<>>
                 /\ fromClient' = <<>> /\ fromOrigin' = <<>> /\ clientSent' = 0
                 /\ originSent' = 0 /\ clientEOF' = FALSE /\ originEOF' = FALSE
                 /\ c2o' = "none" /\ c2oBuf' = <<>> /\ o2cBuf' = <<>>
            ELSE UNCHANGED <<cpc, reqVars, sockVars, relayVars>>
    /\ UNCHANGED <<storeVars, entry, mainpc>>

\* The handler of another connection of the TLS bridge inside GetCertificate.
OtherHandler ==
    /\ entry = "mitm" /\ mainpc = "Accept"
    /\ \/ \E h \in HostNames : CallGetCertificate(otherProc, h)
       \/ StoreStep(otherProc)
       \/ ReturnGetCertificate(otherProc)
    /\ UNCHANGED connVars

\* What ReadString('\n') returns for the first line in SpecLoop.
LoopReads == [err : {Nil}, line : LoopLines] \cup {[err |-> "EOF", line |-> <<"GET">>]}

\* The clients of SpecLoop send no header line.
NoHeaderLines == hdrLines = <<>>

NextLoop ==
    \/ \E cf \in StartupFiles, kf \in StartupFiles : Main_LoadCA(cf, kf)
    \/ Main_Listen
    \/ Accept
    \/ AcceptNext
    \/ HC_ParseInitialRequestFrom(LoopReads)
    \/ PR_ReadRequestLineFrom(LoopReads)
    \/ HC_CollectHeaders /\ NoHeaderLines'
    \/ PR_ParseHeaders /\ NoHeaderLines'
    \/ HC_Dispatch
    \/ HC_HandlePlainConnection
    \/ HC_SendModifiedRequest
    \/ RelayResponse
    \/ Sec_Establish
    \/ Sec_StoreStep
    \/ Sec_CertReturned
    \/ Sec_Handshake
    \/ Sec_ConnectToRemoteServer
    \/ C2O_Read
    \/ O2C_Read
    \/ O2C_Write
    \/ PR_ReadRequestBody
    \/ PR_ForwardToDestination
    \/ PR_SendRequest
    \/ ClientClose
    \/ OriginSend
    \/ OriginClose
    \/ OtherHandler

SpecLoop == InitConn /\ [][NextLoop]_vars

(***************************************************************************)
(* SpecRelay: one connection whose client sends a well-formed request      *)
(* without header lines, and whose two sides each send up to MaxRelay      *)
(* bytes through the relay.                                                *)
(***************************************************************************)
MaxRelay == 2    \* bytes each side sends through the relay in SpecRelay

RelayLines ==
    { <<"CONNECT", " ", "a.test", ":", "443", " ", "HTTP/1.1", "\r", "\n">>,
      <<"GET", " ", "http", ":", "//a.test/p", " ", "HTTP/1.1", "\r", "\n">> }

\* What ReadString('\n') returns for the first line in SpecRelay.
RelayReads == [err : {Nil}, line : RelayLines]

NextRelay ==
    \/ \E cf \in StartupFiles, kf \in StartupFiles : Main_LoadCA(cf, kf)
    \/ Main_Listen
    \/ Accept
    \/ HC_ParseInitialRequestFrom(RelayReads)
    \/ PR_ReadRequestLineFrom(RelayReads)
    \/ HC_CollectHeaders /\ NoHeaderLines'
    \/ PR_ParseHeaders /\ NoHeaderLines'
    \/ HC_Dispatch
    \/ HC_HandlePlainConnection
    \/ HC_SendModifiedRequest
    \/ RelayResponse
    \/ Sec_Establish
    \/ Sec_StoreStep
    \/ Sec_CertReturned
    \/ Sec_Handshake
    \/ Sec_ConnectToRemoteServer
    \/ C2O_Read
    \/ C2O_Write
    \/ O2C_Read
    \/ O2C_Write
    \/ PR_ReadRequestBody
    \/ PR_ForwardToDestination
    \/ PR_SendRequest
    \/ ClientSendUpTo(MaxRelay)
    \/ ClientClose
    \/ OriginSendUpTo(MaxRelay)
    \/ OriginClose

SpecRelay == InitConn /\ [][NextRelay]_vars

(***************************************************************************)
(* SpecCase: successive CONNECT requests of the ProxyListener whose hosts  *)
(* differ only in letter case.                                             *)
(***************************************************************************)
CaseLines ==
    { <<"CONNECT", " ", "a.test", ":", "443", " ", "HTTP/1.1", "\r", "\n">>,
      <<"CONNECT", " ", "A.TEST", ":", "443", " ", "HTTP/1.1", "\r", "\n">> }

\* What ReadString('\n') returns for the first line in SpecCase.
CaseReads == [err : {Nil}, line : CaseLines]

NextCase ==
    \/ \E cf \in StartupFiles, kf \in StartupFiles : Main_LoadCA(cf, kf)
    \/ Main_Listen
    \/ Accept
    \/ AcceptNext
    \/ HC_ParseInitialRequestFrom(CaseReads)
    \/ HC_Dispatch
    \/ Sec_Establish
    \/ Sec_StoreStep
    \/ Sec_CertReturned
    \/ Sec_Handshake
    \/ Sec_ConnectToRemoteServer
    \/ C2O_Read
    \/ O2C_Read
    \/ ClientClose
    \/ OriginClose

\* run of part_003 has been started.
InitCase == InitConn /\ entry = "mitm"

SpecCase == InitCase /\ [][NextCase]_vars

(***************************************************************************)
(* SpecPartial: one connection whose client sends a request line and some  *)
(* header lines and then closes, before the blank line that ends the       *)
(* header section.                                                         *)
(***************************************************************************)
PartialLines ==
    { <<"GET", " ", "http", ":", "//a.test/p", " ", "HTTP/1.1", "\r", "\n">>,
      <<"POST", " ", "http", ":", "//a.test/p", " ", "HTTP/1.1", "\r", "\n">> }

\* What ReadString('\n') returns for the first line in SpecPartial.
PartialFirstReads == [err : {Nil}, line : PartialLines]

\* What ReadString('\n') returns for a header line in SpecPartial: a header
\* line, or the end of the stream.
PartialReads == {in \in HeaderReads : in.err # Nil \/ in.line # BlankLine}

NextPartial ==
    \/ \E cf \in StartupFiles, kf \in StartupFiles : Main_LoadCA(cf, kf)
    \/ Main_Listen
    \/ Accept
    \/ HC_ParseInitialRequestFrom(PartialFirstReads)
    \/ PR_ReadRequestLineFrom(PartialFirstReads)
    \/ HC_Dispatch
    \/ HC_CollectHeadersFrom(PartialReads)
    \/ PR_ParseHeadersFrom(PartialReads)
    \/ HC_HandlePlainConnection
    \/ HC_SendModifiedRequest
    \/ RelayResponse
    \/ OriginSend
    \/ OriginClose

SpecPartial == InitConn /\ [][NextPartial]_vars

(***************************************************************************)
(* Properties of the leaf certificate store.                               *)
(***************************************************************************)
MintedOk(h) == {i \in DOMAIN mintLog : mintLog[i].host = h /\ mintLog[i].err = Nil}

\* C1: for every hostname at most one generateCertificate call succeeds, and
\* all calls that return a bundle for the hostname return the same object.
C1_OneMintOneBundle ==
    /\ \A h \in HostNames : Cardinality(MintedOk(h)) <= 1
    /\ \A r1, r2 \in returned :
         (r1.err = Nil /\ r2.err = Nil /\ r1.host = r2.host) => r1.cert = r2.cert
    /\ \A p \in Callers, r \in returned :
         (gpc[p] = "return" /\ gres[p].err = Nil /\ r.err = Nil /\ r.host = ghost[p])
            => r.cert = gres[p].cert

\* C1 witness: a caller that missed the cache at line 57 and lost the race for
\* the exclusive lock is about to return the bundle another call has returned.
C1_Witness ==
    \E p \in Callers :
        /\ gpc[p] = "return" /\ ~gfound[p].exists /\ ~gtried[p]
        /\ gres[p].cert # NoCert
        /\ [host |-> ghost[p], cert |-> gres[p].cert, err |-> Nil] \in returned

\* C2: a GetCertificate call begun after LoadCA returned ok does not fail
\* with the error of validateConfiguration.
C2_LoadedCAIsInitialized ==
    \A p \in Callers :
        (gsince[p] /\ gpc[p] = "return") => gres[p].err # "ca_not_initialized"

\* C10: a generateCertificate error is returned with the cache unchanged and
\* without an entry for the hostname, and as long as no mint for a hostname
\* has succeeded every completed call for it has tried a mint of its own.
C10_FailedMintNotCached ==
    /\ [][\A p \in Callers :
            (gpc[p] = "generate" /\ gpc'[p] = "Unlock" /\ gres'[p].err # Nil)
               => (cache' = cache /\ ghost[p] \notin DOMAIN cache'
                   /\ gres'[p].cert = NoCert)]_vars
    /\ [](\A p \in Callers :
            (gpc[p] = "return" /\ MintedOk(ghost[p]) = {})
               => (gtried[p] /\ gres[p].err # Nil /\ ghost[p] \notin DOMAIN cache))

\* C10 witness: a hostname whose mint failed has been minted for again.
C10_Witness ==
    \E i, j \in DOMAIN mintLog :
        i < j /\ mintLog[i].host = mintLog[j].host /\ mintLog[i].err # Nil

\* C11: the cache holds one bundle per hostname, the one minted for that
\* hostname, and no step removes an entry or replaces its bundle.
C11_CacheOnlyGrows ==
    /\ [][\A h \in DOMAIN cache : h \in DOMAIN cache' /\ cache'[h] = cache[h]]_vars
    /\ [](\A h \in DOMAIN cache :
            /\ cache[h].cn = h
            /\ \A g \in DOMAIN cache : cache[g] = cache[h] => g = h)

\* C11 witness: a second hostname has been inserted beside the first.
C11_Witness == Cardinality(DOMAIN cache) = 2 /\ \E p \in Callers : gpc[p] = "return"

\* C13: LoadCA returns ok only for a certificate and a key of one key pair.
C13_LoadedKeyMatchesCert ==
    loadResult = "ok" => certManager.rootCertificate = certManager.privateKey

(***************************************************************************)
(* Properties of the connection handlers.                                  *)
(***************************************************************************)
\* C3: on the CONNECT path nothing is written to the origin unless the TLS
\* handshake with the client has succeeded; after a failed handshake the
\* origin has received nothing.
C3_NoBytesBeforeHandshake ==
    (route = "tls" /\ tlsState # "ok") => (toOrigin = <<>> /\ sentRequest = <<>>)

\* C3 witness: after a successful handshake a byte of the client has been
\* written to the origin.
C3_Witness == route = "tls" /\ tlsState = "ok" /\ toOrigin # <<>>

\* C4: once a handler has chosen how to serve a parsed request, it serves it
\* through the TLS bridge exactly when the upper-cased method is CONNECT.
C4_ConnectIffTLSBridge ==
    route # "none" => (route = "tls" <=> ToUpper(method) = <<"CONNECT">>)

\* The bridge is in its duplex relay.
InRelay == route = "tls" /\ cpc \in {"relay", "relay_write"}

C6_SocketsClosedOnReturn ==
    cpc = "done" => (clientSock = "closed" /\ originSock \in {"none", "closed"})

\* C6 witness: a handler that dialed an origin has returned.
C6_Witness == cpc = "done" /\ originSock = "closed" /\ clientSock = "closed"

\* C7: the first line is accepted, with its three tokens stored, exactly when
\* it was read without error and has three whitespace-separated tokens;
\* otherwise the handler returns with nothing written to the client and no
\* origin dialed.
C7_ThreeTokensAccepted ==
    reqLine # NoLine =>
        LET tokens == Fields(reqLine.line)
            ok == reqLine.err = Nil /\ Len(tokens) = 3
        IN  /\ ok <=> cpc # "done"
            /\ cpc # "done" => <<method, target, version>> = tokens
            /\ cpc = "done" => (toClient = <<>> /\ originSock = "none")

\* C8: no request written on the plain path has a header named
\* Proxy-Connection, in any casing.
C8_NoProxyConnection ==
    \A i \in DOMAIN sentRequest :
        \A j \in DOMAIN sentRequest[i].headers :
            ToLower(sentRequest[i].headers[j].name) # <<"proxy-connection">>

\* The name of a header line of the client, or the empty string.
LineName(line) ==
    LET parts == SplitN(TrimSpace(line), ":", 2)
    IN  IF Len(parts) # 2 THEN <<>> ELSE ToLower(TrimSpace(parts[1]))

\* C8 witness: a request has been written for a client that sent
\* Proxy-Connection in upper case.
C8_Witness ==
    /\ sentRequest # <<>>
    /\ \E i \in DOMAIN hdrLines :
         /\ LineName(hdrLines[i]) = <<"proxy-connection">>
         /\ hdrLines[i][1] = "PROXY-CONNECTION"

\* The client sent a Host header, in any casing.
ClientHasHost == \E i \in DOMAIN hdrLines : LineName(hdrLines[i]) = <<"host">>

\* C9: every request written on the plain path has a Host header; the proxy
\* adds one exactly when the client sent none, and then it is the only one.
C9_HostAlwaysPresent ==
    \A i \in DOMAIN sentRequest :
        LET r == sentRequest[i]
            hosts == {j \in DOMAIN r.headers : ToLower(r.headers[j].name) = <<"host">>}
        IN  /\ hosts # {}
            /\ r.synth <=> ~ClientHasHost
            /\ r.synth => (Cardinality(hosts) = 1
                           /\ r.headers[Len(r.headers)].name = <<"Host">>)

\* C9 witness: a request has been written without an added Host header for a
\* client whose Host header was not spelled "Host".
C9_Witness ==
    /\ sentRequest # <<>> /\ ~sentRequest[1].synth
    /\ \E i \in DOMAIN hdrLines :
         LineName(hdrLines[i]) = <<"host">> /\ hdrLines[i][1] # "Host"

\* C12: the listener is open, or a connection has been accepted, only after
\* LoadCA has returned ok.
C12_ListenOnlyAfterLoadCA ==
    (mainpc = "Accept" \/ lastAccept # "none" \/ cpc # "none") => loadResult = "ok"

\* C17: for an absolute-URL target the request line written on the plain
\* path carries the method and the version of the request and the request
\* path of the target, "/" when that path is empty.
C17_RequestLineKeepsPath ==
    (urlParse(target).scheme \in {<<"http">>, <<"https">>}) =>
        \A i \in DOMAIN sentRequest :
            sentRequest[i].line =
                <<method,
                  IF urlParse(target).uri = <<>> THEN <<"/">> ELSE urlParse(target).uri,
                  version>>

\* C18: the port dialed on the plain path is the port of the target URL, and
\* without one 443 for the scheme https and 80 for the scheme http.
C18_PortFromTarget ==
    (route = "plain" /\ originSock # "none") =>
        LET u == urlParse(target)
        IN  /\ u.port # <<>> => details.port = u.port
            /\ (u.port = <<>> /\ u.scheme = <<"https">>) => details.port = <<"443">>
            /\ (u.port = <<>> /\ u.scheme = <<"http">>) => details.port = <<"80">>

\* C19: the host and port the TLS bridge mints for and dials are the target
\* and 443 when the target has no colon, and otherwise a non-empty host and
\* the port that make up the target.
C19_ConnectHostPort ==
    (route = "tls" /\ cpc # "secure") =>
        IF ~Contains(target, ":")
        THEN details.host = target /\ details.port = <<"443">>
        ELSE /\ details.host # <<>>
             /\ details.host \o <<":">> \o details.port = target

\* A header line of the client as a (name, value) pair, name in lower case.
LineHeader(line) ==
    LET parts == SplitN(TrimSpace(line), ":", 2)
    IN  Header(ToLower(TrimSpace(parts[1])), TrimSpace(parts[2]))

\* The headers the client sent, in the order received, without Proxy-Connection.
ClientHeaders ==
    LET kept == SelectSeq(hdrLines,
                    LAMBDA l : LineName(l) # <<>> /\ LineName(l) # <<"proxy-connection">>)
    IN  [i \in DOMAIN kept |-> LineHeader(kept[i])]

\* The headers of a written request that came from the client, names in lower case.
ForwardedClientHeaders(r) ==
    LET n == IF r.synth THEN Len(r.headers) - 1 ELSE Len(r.headers)
    IN  [i \in 1..n |-> Header(ToLower(r.headers[i].name), r.headers[i].value)]

\* C20: the headers written on the plain path are the client's headers
\* without Proxy-Connection, in the order received, duplicates included.
C20_HeaderOrderPreserved ==
    \A i \in DOMAIN sentRequest : ForwardedClientHeaders(sentRequest[i]) = ClientHeaders

\* The bytes the client sent after its headers: those the handler has read
\* and those left unread on the connection.
ClientBody == body \o fromClient

\* C15: a request written on the plain path for a method other than GET and
\* HEAD carries as its body the bytes the client sent after its headers.
C15_BodyForwarded ==
    (route = "plain" /\ method \notin {<<"GET">>, <<"HEAD">>}) =>
        \A i \in DOMAIN sentRequest : sentRequest[i].body = ClientBody

\* C16: when the client of a request other than GET and HEAD sends no body
\* and keeps its connection open, the handler goes on from reading the body
\* to forwarding the request.
C16_DeadlineNotAnError ==
    [][(cpc = "read_body" /\ method \notin {<<"GET">>, <<"HEAD">>}
          /\ body' = <<>> /\ ~clientEOF')
        => cpc' = "forward"]_vars

\* What the goroutine of the other connection holds.
OtherState ==
    <<gpc[otherProc], ghost[otherProc], gfound[otherProc], gres[otherProc],
      gtried[otherProc]>>

\* A step in which the handler returns, Accept fails, or the handler's mint fails.
FailureStep ==
    \/ cpc # "done" /\ cpc' = "done"
    \/ lastAccept # "error" /\ lastAccept' = "error"
    \/ gpc[connProc] = "generate" /\ gres'[connProc].err # Nil

\* C14: a step in which the handler returns or fails to mint, or in which
\* Accept fails, leaves the cache, the CA material and the state of the other
\* handler as they were, and the loop that accepts never stops accepting.
C14_FailureStaysLocal ==
    /\ [][FailureStep =>
            /\ cache' = cache /\ generator' = generator /\ certManager' = certManager
            /\ OtherState' = OtherState
            /\ mainpc' = mainpc]_vars
    /\ [][mainpc = "Accept" => mainpc' = "Accept"]_vars

\* C14 witness: after a handler whose mint failed, and while the other
\* handler is inside GetCertificate, the loop has accepted the next
\* connection and its handler has read a request line.
C14_Witness ==
    /\ cpc = "dispatch" /\ lastAccept = "conn"
    /\ gpc[connProc] = "idle" /\ gtried[connProc] /\ gres[connProc].err # Nil
    /\ gpc[otherProc] \notin {"idle", "return"}

\* The bytes written to a destination are the first bytes its source sent,
\* in the order sent, and no more of them than have been read from the source.
InOrder(written, sent, unread) ==
    /\ Len(written) <= sent - Len(unread)
    /\ \A i \in DOMAIN written : written[i] = i

\* The bytes of the origin written to the client.
ClientBytes ==
    LET bytes == SelectSeq(toClient, LAMBDA e : e[1] = "byte")
    IN  [i \in DOMAIN bytes |-> bytes[i][2]]

\* C21: what has been written to the client is a prefix of what has been
\* read from the origin, and in the TLS bridge what has been written to the
\* origin is a prefix of what has been read from the client.
C21_RelayKeepsOrder ==
    /\ InOrder(ClientBytes, originSent, fromOrigin)
    /\ route = "tls" => InOrder(toOrigin, clientSent, fromClient)

\* C21 witness: in the TLS bridge two bytes have been relayed in each direction.
C21_Witness ==
    route = "tls" /\ Len(ClientBytes) = 2 /\ Len(toOrigin) = 2

AfterStatusWrite == {"cert", "handshake", "tls_dial", "relay", "relay_write"}

\* C23: on the CONNECT path the leaf is asked for only after the 200
\* response has been written to the client as the first and only such
\* response, the handshake runs only with a leaf, and an origin connection
\* exists only after a successful handshake.
C23_ConnectStepsInOrder ==
    route = "tls" =>
        /\ cpc \in AfterStatusWrite =>
               /\ toClient # <<>>
               /\ toClient[1] = StatusLine
               /\ \A i \in DOMAIN toClient : toClient[i] = StatusLine => i = 1
        /\ tlsState # "none" => gres[connProc].err = Nil
        /\ originSock # "none" => tlsState = "ok"

C25_PartialHeadersNotForwarded ==
    originSock = "none" /\ sentRequest = <<>> /\ toOrigin = <<>>

====
